---- MODULE Spec2Model ----
(***************************************************************************)
(* Model of converter.py: the batch image converter.  One coordinator      *)
(* (convert_all), a ThreadPoolExecutor running convert() jobs, and the     *)
(* report_progress thread, all sharing the module-level dictionaries       *)
(* file_counts, created_counts and progress.                               *)
(*                                                                         *)
(* A path is the sequence of its "."-separated pieces, so that             *)
(* str.split(".") and ".".join are sequence operations.                     *)
(***************************************************************************)
EXTENDS Integers, Sequences, FiniteSets, TLC

\* ------------------------------------------------------------------ bounds
MaxFiles == 2      \* entries in the directory listing of the first run
MaxWorkers == 2    \* largest value of --workers explored

\* --------------------------------------------------------------- constants
EXTS == <<"png", "jpg", "webp">>

ExtSet == {EXTS[k] : k \in 1..Len(EXTS)}

Cats == ExtSet \cup {"other", "did-not-exist", "error"}

\* the directory entries the model draws listings from, in listing order
PathOrder ==
  << <<"a", "png">>, <<"a", "jpg">>, <<"a", "webp">>, <<"a", "txt">>,
     <<"b", "png">>, <<"b", "jpg">>, <<"b", "webp">>, <<"d">> >>

AllPaths == {PathOrder[k] : k \in 1..Len(PathOrder)}

\* the entries a directory may hold before the first run
Listable == AllPaths \ {<<"b", "jpg">>, <<"b", "webp">>}

\* codec formats whose encoder may be unusable in the environment
BadFormats == {"none", "webp"}

NoRead == -1

VARIABLES
  files,            \* the list built by os.listdir / os.walk
  fs,               \* filesystem: path -> "absent" | "file" | "dir"
  corrupt,          \* regular files Image.open / im.convert raises on
  badFormat,        \* format conv.save raises on ("none": every save works)
  workers,          \* --workers
  file_counts, created_counts,
  total_files, processed_files,      \* the progress dictionary
  pc, idx,          \* convert_all: position, index of the classification loop
  futures,          \* indices of files submitted to the executor
  jpc, jk, jtmp,    \* per job: position in convert, target index, register
  drained,          \* jobs whose future as_completed has yielded
  mpc, mp,          \* report_progress: position, left operand of the test
  mread,            \* history: the monitor has read total_files
  writes,           \* history: number of completed conv.save calls per path
  failed,           \* history: jobs whose convert entered its except clause
  errInc, fmtInc,   \* history: increments of "error" / of the format, per job
  run,              \* 1: first invocation, 2: second invocation on the result
  listed1           \* history: the entries present when the first invocation began

envVars == <<files, fs, corrupt, badFormat, workers>>
cntVars == <<file_counts, created_counts, total_files, processed_files>>
crdVars == <<pc, idx, futures, drained>>
jobVars == <<jpc, jk, jtmp>>
monVars == <<mpc, mp, mread>>
hstVars == <<writes, failed, errInc, fmtInc, run, listed1>>
vars == <<envVars, cntVars, crdVars, jobVars, monVars, hstVars>>

\* ----------------------------------------------------------- path helpers
\* file.split(".")[-1]
LastPiece(p) == p[Len(p)]

\* ".".join(image.split(".")[:-1])
WithoutExt(p) == SubSeq(p, 1, Len(p) - 1)

\* f"{img_without_ext}.{other_ext}"
Sibling(p, e) == Append(WithoutExt(p), e)

\* image.endswith(f".{ext}")
EndsWithExt(p, e) == Len(p) >= 2 /\ LastPiece(p) = e

\* os.path.isfile / os.path.exists
IsFile(p) == p \in DOMAIN fs /\ fs[p] = "file"

\* os.path.isfile in place of os.path.exists
Exists_FileOnly(p) == p \in DOMAIN fs /\ fs[p] = "file"

Exists(p) == p \in DOMAIN fs /\ fs[p] # "absent"

\* the listing of a set of entries, in listing order
Listing(S) == SelectSeq(PathOrder, LAMBDA p : p \in S)

Jobs == 1..Len(files)

ZeroCounts(S) == [c \in S |-> 0]

\* ------------------------------------------------------------------- Init
Init ==
  /\ \E L \in SUBSET Listable :
       /\ Cardinality(L) <= MaxFiles
       /\ files = Listing(L)
       /\ \E D \in SUBSET L :
            fs = [p \in AllPaths |->
                    IF p \notin L THEN "absent"
                    ELSE IF p \in D THEN "dir" ELSE "file"]
       /\ corrupt \in SUBSET {p \in L : LastPiece(p) \in ExtSet}
  /\ \A p \in corrupt : fs[p] = "file"
  /\ badFormat \in BadFormats
  /\ workers \in 1..MaxWorkers
  /\ file_counts = ZeroCounts(Cats)
  /\ created_counts = ZeroCounts(ExtSet)
  /\ total_files = 0
  /\ processed_files = 0
  /\ pc = "count"
  /\ idx = 1
  /\ futures = {}
  /\ jpc = [i \in Jobs |-> "none"]
  /\ jk = [i \in Jobs |-> 1]
  /\ jtmp = [i \in Jobs |-> 0]
  /\ drained = {}
  /\ mpc = "idle"
  /\ mp = NoRead
  /\ mread = FALSE
  /\ writes = ZeroCounts(AllPaths)
  /\ failed = {}
  /\ errInc = [i \in Jobs |-> 0]
  /\ fmtInc = [i \in Jobs |-> 0]
  /\ run = 1
  /\ listed1 = {files[i] : i \in Jobs}

\* ------------------------------------------------------------ coordinator
\* len(files) - 1: an off-by-one count
InitialTotal_OffByOne == Len(files) - 1

\* progress["total_files"] = len(files)
InitialTotal == Len(files)

CountFiles ==
  /\ pc = "count"
  /\ total_files' = InitialTotal
  /\ pc' = "spawn"
  /\ UNCHANGED <<envVars, file_counts, created_counts, processed_files,
                 idx, futures, drained, jobVars, monVars, hstVars>>

\* progress_thread.start()
StartMonitor ==
  /\ pc = "spawn"
  /\ mpc' = "test_p"
  /\ pc' = "classify"
  /\ UNCHANGED <<envVars, cntVars, idx, futures, drained, jobVars, mp,
                 mread, hstVars>>

\* os.path.exists in place of os.path.isfile
ClassOf_Exists(p) ==
  IF ~Exists(p) THEN "did-not-exist"
  ELSE IF LastPiece(p) \notin ExtSet THEN "other"
  ELSE "job"

\* the if / elif / else of the classification loop
ClassOf(p) ==
  IF ~IsFile(p) THEN "did-not-exist"
  ELSE IF LastPiece(p) \notin ExtSet THEN "other"
  ELSE "job"

\* the decrement left out
TotalExcluding_Kept == total_files

\* progress["total_files"] -= 1
TotalExcluding == total_files - 1

\* one iteration of "for file in files" (the loop ends when idx passes the list)
Classify ==
  /\ pc = "classify"
  /\ IF idx > Len(files)
       THEN /\ pc' = "drain"
            /\ UNCHANGED <<idx, file_counts, total_files, futures, jpc>>
       ELSE /\ pc' = pc
            /\ idx' = idx + 1
            /\ IF ClassOf(files[idx]) = "job"
                 THEN /\ futures' = futures \cup {idx}
                      /\ jpc' = [jpc EXCEPT ![idx] = "queued"]
                      /\ UNCHANGED <<file_counts, total_files>>
                 ELSE /\ file_counts' = [file_counts EXCEPT
                                           ![ClassOf(files[idx])] = @ + 1]
                      /\ total_files' = TotalExcluding
                      /\ UNCHANGED <<futures, jpc>>
  /\ UNCHANGED <<envVars, created_counts, processed_files, drained, jk, jtmp,
                 monVars, hstVars>>

\* processed_files counted only for the jobs that did not fail
DrainProcessed_SuccessOnly(i) ==
  IF i \in failed THEN processed_files ELSE processed_files + 1

\* progress["processed_files"] += 1, after the try statement
DrainProcessed(i) == processed_files + 1

\* the future is finished: convert returned, or an exception left it
FutureDone(i) == jpc[i] \in {"done", "raised"}

\* one iteration of "for future in as_completed(futures)": when convert has
\* handled its own exception future.result() returns; when an exception left
\* convert, future.result() raises it and the except clause only logs
Drain ==
  /\ pc = "drain"
  /\ \E i \in futures \ drained :
       /\ FutureDone(i)
       /\ drained' = drained \cup {i}
       /\ IF jpc[i] = "raised"
            THEN UNCHANGED <<file_counts, fmtInc>>
            ELSE IF LastPiece(files[i]) \in ExtSet
            THEN /\ file_counts' = [file_counts EXCEPT
                                      ![LastPiece(files[i])] = @ + 1]
                 /\ fmtInc' = [fmtInc EXCEPT ![i] = @ + 1]
            ELSE /\ file_counts' = [file_counts EXCEPT !["other"] = @ + 1]
                 /\ UNCHANGED fmtInc
       /\ processed_files' = DrainProcessed(i)
  /\ UNCHANGED <<envVars, created_counts, total_files, pc, idx, futures,
                 jobVars, monVars, writes, failed, errInc, run, listed1>>

\* as_completed is exhausted and the executor's with-block exits
EndDrain ==
  /\ pc = "drain"
  /\ drained = futures
  /\ \A i \in futures : FutureDone(i)
  /\ pc' = "join"
  /\ UNCHANGED <<envVars, cntVars, idx, futures, drained, jobVars, monVars,
                 hstVars>>

\* the report made without joining the thread
MonitorStopped_NoJoin == TRUE

\* the progress thread has ended: its loop was left, or an exception ended it
MonitorStopped == mpc \in {"exited", "crashed"}

\* progress_thread.join() returns, the final counts are logged
JoinAndReport ==
  /\ pc = "join"
  /\ MonitorStopped
  /\ pc' = "done"
  /\ UNCHANGED <<envVars, cntVars, idx, futures, drained, jobVars, monVars,
                 hstVars>>

\* the program is invoked again on the same directory: a new process, whose
\* module-level dictionaries start at zero and whose listing is what the
\* directory now holds
Restart ==
  /\ pc = "done"
  /\ run = 1
  /\ run' = 2
  /\ files' = Listing({p \in AllPaths : Exists(p)})
  /\ file_counts' = ZeroCounts(Cats)
  /\ created_counts' = ZeroCounts(ExtSet)
  /\ total_files' = 0
  /\ processed_files' = 0
  /\ pc' = "count"
  /\ idx' = 1
  /\ futures' = {}
  /\ jpc' = [i \in 1..Len(files') |-> "none"]
  /\ jk' = [i \in 1..Len(files') |-> 1]
  /\ jtmp' = [i \in 1..Len(files') |-> 0]
  /\ drained' = {}
  /\ mpc' = "idle"
  /\ mp' = NoRead
  /\ mread' = FALSE
  /\ writes' = ZeroCounts(AllPaths)
  /\ failed' = {}
  /\ errInc' = [i \in 1..Len(files') |-> 0]
  /\ fmtInc' = [i \in 1..Len(files') |-> 0]
  /\ UNCHANGED <<fs, corrupt, badFormat, workers, listed1>>

\* ---------------------------------------------------------------- workers
Running == {i \in Jobs : jpc[i] \notin {"none", "queued", "done", "raised"}}

Queued == {i \in Jobs : jpc[i] = "queued"}

\* a pool that starts a thread for every work item
MayStart_Unbounded(i) ==
  /\ jpc[i] = "queued"
  /\ \A j \in Queued : i <= j

\* a pool thread takes the oldest work item, if one of the max_workers
\* threads is free
MayStart(i) ==
  /\ jpc[i] = "queued"
  /\ \A j \in Queued : i <= j
  /\ Cardinality(Running) < workers

\* the next position of the "for other_ext in EXTS" loop after index k
NextTarget(i, k) ==
  IF \E n \in (k + 1)..Len(EXTS) : EXTS[n] # LastPiece(files[i])
    THEN CHOOSE n \in (k + 1)..Len(EXTS) :
           /\ EXTS[n] # LastPiece(files[i])
           /\ \A m \in (k + 1)..(n - 1) : EXTS[m] = LastPiece(files[i])
    ELSE 0

\* convert is entered: Image.open(image) and im.convert("RGB") read only the
\* job's own file, then the loops begin
BeginConvert(i) ==
  /\ IF files[i] \in corrupt
       THEN /\ jpc' = [jpc EXCEPT ![i] = "err_read"]
            /\ failed' = failed \cup {i}
            /\ UNCHANGED jk
       ELSE /\ IF \E e \in ExtSet : EndsWithExt(files[i], e)
                 THEN /\ jk' = [jk EXCEPT ![i] = NextTarget(i, 0)]
                      /\ jpc' = [jpc EXCEPT ![i] = "check"]
                 ELSE /\ jpc' = [jpc EXCEPT ![i] = "done"]
                      /\ UNCHANGED jk
            /\ UNCHANGED failed
  /\ UNCHANGED <<envVars, cntVars, jtmp, monVars, writes, errInc, fmtInc,
                 run, listed1>>

\* a pool thread takes the work item and calls convert
StartJob(i) ==
  /\ MayStart(i)
  /\ BeginConvert(i)
  /\ UNCHANGED crdVars

\* after the target at jk[i] has been dealt with
Advance(i) ==
  IF NextTarget(i, jk[i]) = 0
    THEN /\ jpc' = [jpc EXCEPT ![i] = "done"]
         /\ UNCHANGED jk
    ELSE /\ jpc' = [jpc EXCEPT ![i] = "check"]
         /\ jk' = [jk EXCEPT ![i] = NextTarget(i, jk[i])]

\* the existence test left out
MustCreate_Always(i) == TRUE

\* not os.path.exists(f"{img_without_ext}.{other_ext}")
MustCreate(i) == ~Exists(Sibling(files[i], EXTS[jk[i]]))

CheckTarget(i) ==
  /\ jpc[i] = "check"
  /\ IF MustCreate(i)
       THEN /\ jpc' = [jpc EXCEPT ![i] = "save"]
            /\ UNCHANGED jk
       ELSE Advance(i)
  /\ UNCHANGED <<envVars, cntVars, crdVars, jtmp, monVars, hstVars>>

\* the save aimed at the image itself
SavedPath_Source(i) == files[i]

\* the first argument of conv.save
SavedPath(i) == Sibling(files[i], EXTS[jk[i]])

\* conv.save(...): a failed save leaves no file behind
SaveTarget(i) ==
  /\ jpc[i] = "save"
  /\ IF EXTS[jk[i]] = badFormat
       THEN /\ jpc' = [jpc EXCEPT ![i] = "err_read"]
            /\ failed' = failed \cup {i}
            /\ UNCHANGED <<fs, writes>>
       ELSE /\ fs' = [fs EXCEPT ![SavedPath(i)] = "file"]
            /\ writes' = [writes EXCEPT ![SavedPath(i)] = @ + 1]
            /\ jpc' = [jpc EXCEPT ![i] = "cc_read"]
            /\ UNCHANGED failed
  /\ UNCHANGED <<files, corrupt, badFormat, workers, cntVars, crdVars, jk,
                 jtmp, monVars, errInc, fmtInc, run, listed1>>

\* created_counts[other_ext] += 1, the load
CreatedRead(i) ==
  /\ jpc[i] = "cc_read"
  /\ jtmp' = [jtmp EXCEPT ![i] = created_counts[EXTS[jk[i]]]]
  /\ jpc' = [jpc EXCEPT ![i] = "cc_write"]
  /\ UNCHANGED <<envVars, cntVars, crdVars, jk, monVars, hstVars>>

\* created_counts[other_ext] += 1, the store
CreatedWrite(i) ==
  /\ jpc[i] = "cc_write"
  /\ created_counts' = [created_counts EXCEPT ![EXTS[jk[i]]] = jtmp[i] + 1]
  /\ jtmp' = [jtmp EXCEPT ![i] = 0]
  /\ Advance(i)
  /\ UNCHANGED <<envVars, file_counts, total_files, processed_files, crdVars,
                 monVars, hstVars>>

\* file_counts["error"] += 1 in the except clause, the load
ErrorRead(i) ==
  /\ jpc[i] = "err_read"
  /\ jtmp' = [jtmp EXCEPT ![i] = file_counts["error"]]
  /\ jpc' = [jpc EXCEPT ![i] = "err_write"]
  /\ UNCHANGED <<envVars, cntVars, crdVars, jk, monVars, hstVars>>

\* file_counts["error"] += 1 in the except clause, the store
ErrorWrite(i) ==
  /\ jpc[i] = "err_write"
  /\ file_counts' = [file_counts EXCEPT !["error"] = jtmp[i] + 1]
  /\ errInc' = [errInc EXCEPT ![i] = @ + 1]
  /\ jtmp' = [jtmp EXCEPT ![i] = 0]
  /\ jpc' = [jpc EXCEPT ![i] = "done"]
  /\ UNCHANGED <<envVars, created_counts, total_files, processed_files,
                 crdVars, jk, monVars, writes, failed, fmtInc, run, listed1>>

\* the except clause of convert raises itself while it formats the log line,
\* before the count: the exception leaves convert and is kept by the future
EscapeConvert(i) ==
  /\ jpc[i] = "err_read"
  /\ jpc' = [jpc EXCEPT ![i] = "raised"]
  /\ UNCHANGED <<envVars, cntVars, crdVars, jk, jtmp, monVars, hstVars>>

\* ---------------------------------------------------------------- monitor
\* while progress["processed_files"] < progress["total_files"]: left operand
TestReadProcessed ==
  /\ mpc = "test_p"
  /\ mp' = processed_files
  /\ mpc' = "test_t"
  /\ UNCHANGED <<envVars, cntVars, crdVars, jobVars, mread, hstVars>>

\* a loop left one job early
LoopTest_Early(p, t) == p + 1 < t

\* processed_files < total_files
LoopTest(p, t) == p < t

\* ... right operand and the comparison; in the body, whether a second has
\* passed since the last report is not determined by the model; the body
\* ends with time.sleep(0.01)
TestReadTotal ==
  /\ mpc = "test_t"
  /\ mread' = TRUE
  /\ mp' = NoRead
  /\ IF LoopTest(mp, total_files)
       THEN mpc' \in {"percent", "test_p"}
       ELSE mpc' = "exited"
  /\ UNCHANGED <<envVars, cntVars, crdVars, jobVars, hstVars>>

\* percent_complete = (progress["processed_files"] * 100) /
\* progress["total_files"]: ZeroDivisionError ends the thread; otherwise the
\* eta is computed, the line is logged and the thread sleeps
Percent ==
  /\ mpc = "percent"
  /\ mpc' = IF total_files = 0 THEN "crashed" ELSE "test_p"
  /\ UNCHANGED <<envVars, cntVars, crdVars, jobVars, mp, mread, hstVars>>

\* ------------------------------------------------------------------- Next
\* one step of convert after it was entered
ConvertStep(i) ==
  \/ CheckTarget(i)
  \/ SaveTarget(i)
  \/ CreatedRead(i)
  \/ CreatedWrite(i)
  \/ ErrorRead(i)
  \/ ErrorWrite(i)

Worker == \E i \in Jobs : StartJob(i) \/ ConvertStep(i)

Monitor ==
  \/ TestReadProcessed
  \/ TestReadTotal
  \/ Percent

Coordinator ==
  \/ CountFiles
  \/ StartMonitor
  \/ Classify
  \/ Drain
  \/ EndDrain
  \/ JoinAndReport

Next == Coordinator \/ Worker \/ Monitor

Spec == Init /\ [][Next]_vars

\* the scheduler lets every thread that can run take its next step
\* the runs followed to their end: all pool threads available, images of
\* one base name
InitFair == Init /\ workers = MaxWorkers /\ <<"b", "png">> \notin listed1

SpecFair ==
  /\ InitFair
  /\ [][Next]_vars
  /\ WF_vars(Coordinator) /\ WF_vars(Worker) /\ WF_vars(Monitor)

\* runs in which an exception may leave convert
Escape == \E i \in Jobs : EscapeConvert(i)

NextEscape == Next \/ Escape

SpecEscape == Init /\ [][NextEscape]_vars

\* two invocations in succession
NextTwice == Next \/ Restart

\* directories whose images share one base name
InitTwice == Init /\ <<"b", "png">> \notin listed1

SpecTwice == InitTwice /\ [][NextTwice]_vars

\* ------------------------------------------------------- single-file mode
\* the program is started without --directory and --recursive on one path
InitSingle ==
  /\ \E L \in SUBSET Listable :
       /\ Cardinality(L) <= MaxFiles
       /\ listed1 = L
       /\ \E D \in SUBSET L :
            fs = [p \in AllPaths |->
                    IF p \notin L THEN "absent"
                    ELSE IF p \in D THEN "dir" ELSE "file"]
       /\ corrupt \in SUBSET L
  /\ \A p \in corrupt : fs[p] = "file"
  /\ \E p \in Listable : files = <<p>>
  /\ badFormat \in BadFormats
  /\ workers = 1
  /\ file_counts = ZeroCounts(Cats)
  /\ created_counts = ZeroCounts(ExtSet)
  /\ total_files = 0
  /\ processed_files = 0
  /\ pc = "main"
  /\ idx = 1
  /\ futures = {}
  /\ jpc = [i \in Jobs |-> "none"]
  /\ jk = [i \in Jobs |-> 1]
  /\ jtmp = [i \in Jobs |-> 0]
  /\ drained = {}
  /\ mpc = "idle"
  /\ mp = NoRead
  /\ mread = FALSE
  /\ writes = ZeroCounts(AllPaths)
  /\ failed = {}
  /\ errInc = [i \in Jobs |-> 0]
  /\ fmtInc = [i \in Jobs |-> 0]
  /\ run = 1

\* os.path.exists in place of os.path.isfile
ValidSingle_Exists(p) == Exists(p)

\* os.path.isfile(args.path)
ValidSingle(p) == IsFile(p)

\* the branch of the main block: an invalid path is only logged, a regular
\* file is handed to convert_single, which calls convert in the main thread
SingleMain ==
  /\ pc = "main"
  /\ IF ValidSingle(files[1])
       THEN /\ pc' = "single"
            /\ BeginConvert(1)
       ELSE /\ pc' = "done"
            /\ UNCHANGED <<envVars, cntVars, jobVars, monVars, hstVars>>
  /\ UNCHANGED <<idx, futures, drained>>

SingleConvert ==
  /\ pc = "single"
  /\ \E i \in Jobs : ConvertStep(i)

\* the file counted as found, as the batch does
FoundAfterSingle_Counted ==
  [c \in Cats |-> IF c = LastPiece(files[1]) THEN file_counts[c] + 1
                                               ELSE file_counts[c]]

\* convert_single leaves file_counts as convert left it
FoundAfterSingle == file_counts

\* convert returned: the final counts are logged
SingleReport ==
  /\ pc = "single"
  /\ jpc[1] = "done"
  /\ pc' = "done"
  /\ file_counts' = FoundAfterSingle
  /\ UNCHANGED <<envVars, created_counts, total_files, processed_files, idx,
                 futures, drained, jobVars, monVars, hstVars>>

NextSingle == SingleMain \/ SingleConvert \/ SingleReport

SpecSingle == InitSingle /\ [][NextSingle]_vars

\* ----------------------------------------------------------- properties
RECURSIVE SumOver(_, _)
SumOver(f, S) ==
  IF S = {} THEN 0
  ELSE LET c == CHOOSE x \in S : TRUE IN f[c] + SumOver(f, S \ {c})

\* completed saves of one format
SavesOf(e) == SumOver(writes, {p \in AllPaths : LastPiece(p) = e})

Finished == pc = "done"

\* C1: at most `workers` convert calls are in progress in any state, however
\* many jobs have been submitted.
ActiveAtMostWorkers == Cardinality(Running) <= workers

\* the pool is saturated while a submitted job waits
PoolFullWithBacklog == Cardinality(Running) = workers /\ Queued # {}

\* C2: while the monitor exists, 0 <= processed_files <= total_files (also
\* for the left operand it sampled earlier), and in a run that dispatches a
\* job the two are equal only once classification is over and every job
\* has been drained.
WillDispatch == \E i \in Jobs : IsFile(files[i]) /\ LastPiece(files[i]) \in ExtSet

ProgressWithinTotal ==
  mpc # "idle" =>
    /\ 0 <= processed_files
    /\ processed_files <= total_files
    /\ mp # NoRead => (0 <= mp /\ mp <= total_files)
    /\ (WillDispatch /\ processed_files = total_files) =>
         /\ idx > Len(files)
         /\ futures # {}
         /\ drained = futures

\* the monitor is about to sample a completed run that had jobs
MonitorSeesCompletion ==
  /\ mpc = "test_p"
  /\ futures # {}
  /\ processed_files = total_files

\* C3: when the run has finished, the categories of file_counts add up to
\* the number of entries listed.
FoundSumIsListed == Finished => SumOver(file_counts, Cats) = Len(files)

\* C4: once the monitor has read total_files, total_files is not decremented.
TotalFinalBeforeFirstRead == [][mread => total_files' >= total_files]_vars

\* C5: when the run has finished, created_counts[f] is the number of sibling
\* files of format f the workers wrote, for every format f.  Stated for the
\* runs in which no path was saved twice, where the files written and the
\* saves completed are the same number.
CreatedMatchesSaves ==
  (Finished /\ \A p \in AllPaths : writes[p] <= 1) =>
    \A e \in ExtSet : created_counts[e] = SavesOf(e)

\* C6: when the run has finished, a failed job has incremented "error" once
\* and its format never, and a successful job its format once and "error"
\* never.
OutcomeCountedOnce ==
  Finished =>
    \A i \in futures :
      IF i \in failed
        THEN errInc[i] = 1 /\ fmtInc[i] = 0
        ELSE errInc[i] = 0 /\ fmtInc[i] = 1

\* C7: whatever jobs fail, once the drain loop has ended every entry that is a
\* supported regular file was dispatched, ran to completion and was drained
\* once, and processed_files is the number of dispatched jobs.
BatchNeverAborts ==
  pc \in {"join", "done"} =>
    /\ futures = {i \in Jobs : IsFile(files[i]) /\ LastPiece(files[i]) \in ExtSet}
    /\ \A i \in futures : jpc[i] = "done" /\ i \in drained /\ fmtInc[i] = 1
    /\ processed_files = Cardinality(futures)

\* a finished run in which one job failed and another did not
FinishedWithMixedOutcomes ==
  /\ Finished
  /\ failed # {}
  /\ futures \ failed # {}

\* C8: the second of two runs in succession completes no save and leaves
\* every entry of created_counts at zero.
SecondRunCreatesNothing ==
  run = 2 =>
    /\ \A p \in AllPaths : writes[p] = 0
    /\ \A e \in ExtSet : created_counts[e] = 0

\* the second run has finished and converted a file the first run created
SecondRunOverCreatedFiles ==
  /\ run = 2
  /\ Finished
  /\ \E i \in futures : files[i] \notin listed1

\* C9: the monitor never fails in the percent computation (its divisor is
\* never zero).
MonitorNeverDividesByZero == mpc # "crashed"

\* C10: only supported regular files are dispatched; once classification has
\* ended, "did-not-exist" counts the entries that are not regular files,
\* "other" the regular files with an unsupported extension, and total_files
\* is the number of jobs submitted.
ClassificationExact ==
  /\ \A i \in futures : IsFile(files[i]) /\ LastPiece(files[i]) \in ExtSet
  /\ pc \in {"drain", "join", "done"} =>
       /\ total_files = Cardinality(futures)
       /\ file_counts["did-not-exist"] =
            Cardinality({i \in Jobs : ~IsFile(files[i])})
       /\ file_counts["other"] =
            Cardinality({i \in Jobs : IsFile(files[i])
                                       /\ LastPiece(files[i]) \notin ExtSet})
       /\ Cardinality(futures) + file_counts["did-not-exist"]
            + file_counts["other"] = Len(files)

\* classification has ended with one entry excluded and another dispatched
ClassifiedWithExclusion ==
  /\ pc = "drain"
  /\ futures # {}
  /\ file_counts["did-not-exist"] + file_counts["other"] >= 1

\* C11: in single-file mode, when the path is not an existing regular file,
\* convert is never entered, no save completes and file_counts and
\* created_counts stay as they were.
InvalidSinglePathDoesNothing ==
  ~IsFile(files[1]) =>
    /\ jpc[1] = "none"
    /\ pc \in {"main", "done"}
    /\ \A p \in AllPaths : writes[p] = 0
    /\ file_counts = ZeroCounts(Cats)
    /\ created_counts = ZeroCounts(ExtSet)
    /\ failed = {}

\* the single-file run has ended on a path that is a directory
SingleEndedOnDirectory ==
  /\ pc = "done"
  /\ Len(files) = 1
  /\ Exists(files[1])
  /\ ~IsFile(files[1])

\* C12: the final report is made only when every submitted job has
\* completed, every result has been drained and counted in processed_files
\* and the monitor thread has ended; after the report no counter changes.
ReportAfterEverything ==
  /\ [](Finished =>
          /\ \A i \in futures : jpc[i] = "done" /\ i \in drained
          /\ drained = futures
          /\ processed_files = Cardinality(futures)
          /\ mpc \in {"exited", "crashed"})
  /\ [][Finished => UNCHANGED cntVars]_vars

\* the report is made after jobs were drained and the monitor left its loop
ReportedAfterJobs ==
  /\ Finished
  /\ futures # {}
  /\ mpc = "exited"

\* C13: under fair scheduling the monitor thread ends in every run, it is
\* never ended while processed_files < total_files, and convert_all then
\* terminates.
MonitorEnded == mpc \in {"exited", "crashed"}

MonitorLeavesAtCompletion ==
  /\ [](MonitorEnded => processed_files = total_files)
  /\ <>MonitorEnded
  /\ <>Finished

\* the loop was left after the last of several results was drained
MonitorExitedAfterJobs ==
  /\ mpc = "exited"
  /\ processed_files = total_files
  /\ total_files >= 2

\* C14: no file is submitted to the pool, and no convert call begins, before
\* every entry has been classified.
ClassifiedBeforeDispatch ==
  (futures # {} \/ Running # {}) => idx > Len(files)

\* C15: every step that changes file_counts is a step of the coordinator: it
\* leaves the position of every convert call alone.
FoundWrittenByCoordinatorOnly ==
  [][file_counts' # file_counts => UNCHANGED jobVars]_vars

\* C16: no path present when the run began is saved by a worker, so no job
\* saves its own image, also when jobs share a base name.
ExistingFilesNeverWritten ==
  /\ \A p \in listed1 : writes[p] = 0
  /\ \A i \in Jobs : writes[files[i]] = 0
  /\ \A p \in AllPaths : writes[p] > 0 => fs[p] = "file"

\* two jobs sharing a base name have run and their missing sibling was saved
SharedBaseConverted ==
  /\ Finished
  /\ \E i, j \in futures :
       /\ i # j
       /\ WithoutExt(files[i]) = WithoutExt(files[j])
       /\ \E e \in ExtSet : writes[Sibling(files[i], e)] > 0

\* C17: the existence test and the save are separate steps.  A sibling is
\* saved more than once only when it was absent at the start and as many
\* jobs of other formats share its base name, each saving it at most once;
\* the state in which two jobs have both saved it, and created_counts
\* exceeds the number of new files, is reachable.
SaversOf(p) ==
  {i \in futures : /\ LastPiece(files[i]) # LastPiece(p)
                   /\ Sibling(files[i], LastPiece(p)) = p}

NewFilesOf(e) == Cardinality({p \in AllPaths : LastPiece(p) = e /\ writes[p] > 0})

DoubleSaveOnlyBySharedBase ==
  /\ \A p \in AllPaths :
       writes[p] > 0 =>
         /\ writes[p] <= Cardinality(SaversOf(p))
         /\ writes[p] >= 2 => p \notin listed1
  /\ \A e \in ExtSet :
       (created_counts[e] > 0 /\ created_counts[e] > NewFilesOf(e)) =>
         \E p \in AllPaths : LastPiece(p) = e /\ writes[p] >= 2

\* both jobs passed the test, both saved the sibling, both were counted
SiblingSavedTwice ==
  /\ Finished
  /\ \E p \in AllPaths :
       /\ writes[p] = 2
       /\ created_counts[LastPiece(p)] = 2
       /\ NewFilesOf(LastPiece(p)) = 1

\* C18: when the run has finished, every job whose exception left convert has
\* been drained and counted in processed_files, and "error" has been
\* incremented once for each of them.
Raised == {i \in futures : jpc[i] = "raised"}

EscapedCountedAsError ==
  Finished =>
    /\ Raised \subseteq drained
    /\ processed_files = Cardinality(futures)
    /\ file_counts["error"] >= Cardinality(Raised)

\* C19: during the classification loop total_files is the number of jobs
\* submitted plus the number of entries not yet classified and
\* processed_files is 0; in a run with a job the monitor has not left its
\* loop before the last result is drained.
TotalIsJobsPlusUnclassified ==
  /\ pc = "classify" =>
       /\ total_files = Cardinality(futures) + (Len(files) + 1 - idx)
       /\ processed_files = 0
  /\ (WillDispatch /\ mpc = "exited") =>
       /\ pc \in {"drain", "join", "done"}
       /\ drained = futures

\* the monitor has sampled the total in the middle of the classification
MonitorReadsDuringClassification ==
  /\ pc = "classify"
  /\ mread
  /\ futures # {}
  /\ idx <= Len(files)

\* C20: in single-file mode no entry of file_counts other than "error"
\* changes, also when the file is converted, and total_files and
\* processed_files stay 0.
SingleCountsOnlyErrors ==
  /\ \A c \in Cats \ {"error"} : file_counts[c] = 0
  /\ file_counts["error"] <= 1
  /\ total_files = 0
  /\ processed_files = 0

\* the single file was converted and a sibling saved
SingleConverted ==
  /\ pc = "done"
  /\ jpc[1] = "done"
  /\ failed = {}
  /\ \E p \in AllPaths : writes[p] > 0

====
